---- MODULE Spec2Model ----
(***************************************************************************)
(* Model of the SJ Tube backend (src/main.py): the in-memory task          *)
(* registry, the background download worker and its progress hook, the     *)
(* bounded download history, the deferred file deletion and the HTTP       *)
(* handlers that submit, poll, list, delete and serve.                     *)
(*                                                                         *)
(* Representation.  A Python str is a sequence of one-character strings,   *)
(* so that strip(), basename(), pathlib's resolve() and str.startswith()   *)
(* are computed character by character as the code computes them.  A path  *)
(* is a sequence of segments.  A percentage is kept in tenths (999 stands  *)
(* for 99.9), a two-decimal value in hundredths.  An optional value is     *)
(* None, the empty tuple, or Some(x), the one-element tuple.  The output   *)
(* directory holds no symbolic links.                                      *)
(***************************************************************************)
EXTENDS Integers, Sequences, FiniteSets, TLC

\* ------------------------------------------------------------------ bounds
MaxTasks == 1        \* task ids handed out by start_download
MaxBytes == 3        \* largest byte counter carried by a progress event
MaxTicks == 1        \* clock ticks
MaxPoolJobs == 4     \* jobs submitted to the executor when the pool is studied
MaxTimerJobs == 2    \* jobs whose deletion threads are studied

\* ------------------------------------------------------- program constants
PoolSize == 3                 \* ThreadPoolExecutor(max_workers=3)
MaxHistory == 100             \* "Keep only last 100 entries"
AUTO_DELETE_SECONDS == 300    \* default of the environment variable
TickSeconds == AUTO_DELETE_SECONDS    \* seconds that pass in one clock tick

None == <<>>
Some(x) == <<x>>
Val(o) == o[1]

\* ----------------------------------------------------------------- strings
Whitespace == {" ", "\t", "\n"}

RECURSIVE LStrip(_)
LStrip(s) ==
    IF s # <<>> /\ Head(s) \in Whitespace THEN LStrip(Tail(s)) ELSE s

RECURSIVE RStrip(_)
RStrip(s) ==
    IF s # <<>> /\ s[Len(s)] \in Whitespace
    THEN RStrip(SubSeq(s, 1, Len(s) - 1))
    ELSE s

\* a strip() that was left out
StripOmitted(s) == s

\* str.strip()
Strip(s) == RStrip(LStrip(s))

\* str.startswith(prefix)
StartsWith(s, prefix) ==
    /\ Len(prefix) <= Len(s)
    /\ SubSeq(s, 1, Len(prefix)) = prefix

\* str.lower(), for the letters that occur in the urls
LowerChar(c) ==
    CASE c = "L" -> "l" [] c = "I" -> "i" [] c = "S" -> "s" [] c = "T" -> "t"
      [] OTHER -> c

Lower(s) == [i \in 1..Len(s) |-> LowerChar(s[i])]

\* sub in s
Contains(s, sub) ==
    \E i \in 1..(Len(s) - Len(sub) + 1) :
        SubSeq(s, i, i + Len(sub) - 1) = sub

\* is_playlist_url
IsPlaylistUrl(url) == Contains(Lower(url), <<"l", "i", "s", "t", "=">>)

\* the segments of a string split at "/"
RECURSIVE SplitFrom(_, _, _)
SplitFrom(s, i, cur) ==
    IF i > Len(s) THEN <<cur>>
    ELSE IF s[i] = "/" THEN <<cur>> \o SplitFrom(s, i + 1, <<>>)
    ELSE SplitFrom(s, i + 1, Append(cur, s[i]))

Split(s) == SplitFrom(s, 1, <<>>)

\* os.path.basename(s): what follows the last "/"
Basename(s) == LET parts == Split(s) IN parts[Len(parts)]

\* ------------------------------------------------------------------- paths
\* Path.resolve() without symbolic links: "" and "." are dropped, ".."
\* removes the segment before it and stays at the root.
RECURSIVE Normalize(_, _)
Normalize(segs, acc) ==
    IF segs = <<>> THEN acc
    ELSE LET h == Head(segs) IN
         IF h = <<>> \/ h = <<".">> THEN Normalize(Tail(segs), acc)
         ELSE IF h = <<".", ".">>
              THEN Normalize(Tail(segs),
                             IF acc = <<>> THEN acc
                             ELSE SubSeq(acc, 1, Len(acc) - 1))
              ELSE Normalize(Tail(segs), Append(acc, h))

\* str(path) of an absolute path
RECURSIVE PathStr(_)
PathStr(p) ==
    IF p = <<>> THEN <<"/">>
    ELSE IF Len(p) = 1 THEN <<"/">> \o p[1]
    ELSE PathStr(SubSeq(p, 1, Len(p) - 1)) \o <<"/">> \o p[Len(p)]

\* Path(DOWNLOAD_DIR).resolve(): the output directory "/d"
BaseDir == << <<"d">> >>

\* a sibling directory "/de" whose name begins with the output directory's
SiblingDir == << <<"d", "e">> >>

\* (Path(DOWNLOAD_DIR).resolve() / filename).resolve(); joining with an
\* absolute filename discards the left operand
ResolveIn(base, filename) ==
    IF filename # <<>> /\ Head(filename) = "/"
    THEN Normalize(Split(filename), <<>>)
    ELSE Normalize(Split(filename), base)

\* p is base or lies below it in the directory tree
IsDescendant(p, base) ==
    /\ Len(p) >= Len(base)
    /\ SubSeq(p, 1, Len(base)) = base

\* the check the handlers make:
\* str(file_path).startswith(str(Path(DOWNLOAD_DIR).resolve()))
PathAllowed(p, base) == StartsWith(PathStr(p), PathStr(base))

\* ----------------------------------------------------------------- numbers
RECURSIVE Pow(_, _)
Pow(b, e) == IF e = 0 THEN 1 ELSE b * Pow(b, e - 1)

\* num/den (den > 0, num >= 0) rounded to an integer, ties to even
RoundHalfEven(num, den) ==
    LET q == num \div den
        r == num % den
    IN  IF 2 * r < den THEN q
        ELSE IF 2 * r > den THEN q + 1
        ELSE IF q % 2 = 0 THEN q ELSE q + 1

Units == <<"B", "KiB", "MiB", "GiB", "TiB">>

\* the loop of _fmt_bytes: the unit index reached from v = n / 1024^i
RECURSIVE UnitIndex(_, _)
UnitIndex(n, i) ==
    IF n >= 1024 * Pow(1024, i) /\ i < Len(Units) - 1
    THEN UnitIndex(n, i + 1)
    ELSE i

\* _fmt_bytes(n): "?" for None or a negative n, int(v) and "B" in the first
\* tier, else v to two decimals (kept in hundredths) and the unit
FmtBytes(o) ==
    IF o = None \/ Val(o) < 0 THEN <<"?">>
    ELSE LET n == Val(o)
             i == UnitIndex(n, 0)
         IN  IF i = 0 THEN <<n, Units[1]>>
             ELSE <<RoundHalfEven(n * 100, Pow(1024, i)), Units[i + 1]>>

\* ------------------------------------------------------------------ inputs
TaskIds == 1..MaxTasks

\* req.url of a submit request
Urls == { <<>>, <<" ">>, <<" ", "\t">>, <<"u">>, <<" ", "u", " ">> }

\* req.url of a validate request: those of a submit request, "list=" and
\* " LisT=x"
ValidateUrls ==
    Urls \cup { <<"l", "i", "s", "t", "=">>,
                <<" ", "L", "i", "s", "T", "=", "x">> }

\* what ydl.extract_info may return as info: _type, the entries key (absent,
\* or the number of entries), duration, title and uploader (absent or
\* present) and channel
ProbeInfos ==
    [type : {"video", "playlist"},
     entries : {None, Some(0), Some(2)},
     duration : {None, Some(0), Some(75), Some(3725)},
     title : {None, Some("t")},
     uploader : {None, Some("up")},
     channel : {None, Some("ch")}]

\* the ways ydl.extract_info ends
ProbeOutcomes ==
    { [kind |-> "none"],
      [kind |-> "DownloadError", msg |-> "unavailable"],
      [kind |-> "Exception", msg |-> "timeout"] }
    \cup { [kind |-> "info", info |-> i] : i \in ProbeInfos }

\* req.mode of a submit request
Modes == {"video", "audio", "gif"}

\* names yt-dlp gives the files it writes into the output directory
OutNames == { <<"a">>, <<"b">> }

\* st_size of a file yt-dlp wrote
FileSizes == {1536}

\* st_size at the edges of the first three tiers of _fmt_bytes: 0, 1, 1023,
\* 1024, 1025, 1024^2 - 6, 1024^2 - 5, 1024^2 - 1, 1024^2, 20 * 1024^2
SizeInputs ==
    {0, 1, 1023, 1024, 1025, 1048570, 1048571, 1048575, 1048576, 20971520}

\* the filename path parameter of the delete and the serve endpoint:
\* a, b, ../p, ../de/a, /p, x/../a
FilenameInputs ==
    { <<"a">>, <<"b">>,
      <<".", ".", "/", "p">>,
      <<".", ".", "/", "d", "e", "/", "a">>,
      <<"/", "p">>,
      <<"x", "/", ".", ".", "/", "a">> }

\* str(e) of a failure raised by ydl.download
FetchErrors == {"DownloadError"}

\* str(e) of a failure raised by iterdir() or stat()
ScanError == "OSError"
StatError == "FileNotFoundError"

\* the byte counters of a progress event
ByteCounts == {None} \cup { Some(n) : n \in 0..MaxBytes }

\* (total_bytes, total_bytes_estimate) of a progress event
TotalPairs ==
    { <<t, None>> : t \in ByteCounts } \cup { <<None, Some(MaxBytes)>> }

\* (filename, info_dict._filename) of a progress event: /d/a and /d/b
NamePairs ==
    { <<None, None>>,
      << Some(<<"/", "d", "/", "a">>), None >>,
      << None, Some(<<"/", "d", "/", "b">>) >> }

\* a progress event of the given phase that carries nothing else
BareEvent(st) ==
    [status |-> st, downloaded_bytes |-> None,
     total_bytes |-> None, total_bytes_estimate |-> None,
     speed |-> None, eta |-> None,
     filename |-> None, info_filename |-> None]

\* the phases of a progress event; yt-dlp also reports "error"
Phases == {"downloading", "finished", "error"}

\* the progress events yt-dlp may hand to the hook: every phase with
\* every pair of names, and downloading events with every pair of byte
\* counters or with every speed and eta
ProgressEvents ==
    { [BareEvent(st) EXCEPT !.filename = np[1], !.info_filename = np[2]] :
        st \in Phases, np \in NamePairs }
    \cup
    { [BareEvent("downloading") EXCEPT
          !.downloaded_bytes = db, !.total_bytes = tp[1],
          !.total_bytes_estimate = tp[2]] :
        db \in ByteCounts, tp \in TotalPairs }
    \cup
    { [BareEvent("downloading") EXCEPT !.speed = sp, !.eta = et] :
        sp \in {None, Some(0), Some(2048)}, et \in {None, Some(75)} }

\* ------------------------------------------------------------------- state
VARIABLES
    tasks,             \* tasks: the dict task id -> record
    download_history,  \* download_history, newest first
    disk,              \* the files on disk, most recently modified first
    pc,                \* where each job stands in _run_download_task
    queue,             \* jobs submitted to the executor and not yet started
    nextId,            \* the next task id start_download hands out
    loc,               \* the locals files / latest_file / file_size of a job
    timer,             \* the _delete thread started by each job
    now,               \* the clock, in seconds
    req,               \* the delete request the event loop is handling
    resp,              \* the response sent by the step just taken
    tasks_lock,        \* tasks_lock: the thread that holds it, if any
    history_lock,      \* history_lock: the thread that holds it, if any
    call               \* the locking function each thread is in, and how
                       \* many of its locks the thread has acquired

vars == <<tasks, download_history, disk, pc, queue, nextId, loc, timer,
          now, req, resp, tasks_lock, history_lock, call>>

lockvars == <<tasks_lock, history_lock, call>>

NoLoc == [listed |-> {}, files |-> <<>>, latest_file |-> None, file_size |-> 0]
NoTimer == [state |-> "none"]
NoReq == [op |-> "none"]
NoResp == [op |-> "none"]

\* files outside the output directory: /p and /de/a
OutsideFiles ==
    << [path |-> << <<"p">> >>, size |-> 7],
       [path |-> SiblingDir \o << <<"a">> >>, size |-> 7] >>

Dirs == { <<>>, BaseDir, SiblingDir }

\* ------------------------------------------------------------- file system
DiskFiles(d) == { d[i] : i \in 1..Len(d) }

DiskPaths(d) == { f.path : f \in DiskFiles(d) }

\* Path.exists()
Exists(d, p) == p \in Dirs \/ p \in DiskPaths(d)

\* Path.unlink() of an existing file
Unlink(d, p) == SelectSeq(d, LAMBDA f : f.path # p)

\* a file written now is the most recently modified one
WriteTo(d, p, size) == <<[path |-> p, size |-> size]>> \o Unlink(d, p)

\* download_path.iterdir(): the entries of the output directory
IterDir(d) ==
    { q \in DiskPaths(d) :
        Len(q) = Len(BaseDir) + 1 /\ SubSeq(q, 1, Len(BaseDir)) = BaseDir }

\* sorted(..., key=lambda f: f.stat().st_mtime, reverse=True)
SortByMtime(d, listed) ==
    LET kept == SelectSeq(d, LAMBDA f : f.path \in listed)
    IN  [i \in 1..Len(kept) |-> kept[i].path]

\* Path.stat().st_size
SizeOf(d, p) == (CHOOSE f \in DiskFiles(d) : f.path = p).size

\* Path.name
PathName(p) == p[Len(p)]

\* ---------------------------------------------------------------- registry
\* _get_task: the record, or the empty dict
GetTask(t, id) == IF id \in DOMAIN t THEN Some(t[id]) ELSE None

\* a _set_task that would update the status and the progress of an entry
\* it finds instead of replacing the entry
SetTaskMerging(t, id, data) ==
    [k \in DOMAIN t \cup {id} |->
        IF k # id THEN t[k]
        ELSE IF id \in DOMAIN t
             THEN [t[id] EXCEPT !.status = data.status,
                                !.progress = data.progress]
             ELSE data]

\* a _set_task that would store the record under every task id it knows
SetTaskShared(t, id, data) ==
    [k \in DOMAIN t \cup {id} |-> data]

\* _set_task
SetTask(t, id, data) ==
    [k \in DOMAIN t \cup {id} |-> IF k = id THEN data ELSE t[k]]

PendingRecord ==
    [status |-> "pending", progress |-> 0, speed |-> None, eta |-> None,
     filename |-> None, error |-> None]

\* a done record that would leave the filename out
DoneRecordNoFilename(latest_file) ==
    [status |-> "done", progress |-> 1000, speed |-> None, eta |-> None,
     filename |-> None, error |-> None]

DoneRecord(latest_file) ==
    [status |-> "done", progress |-> 1000, speed |-> None, eta |-> None,
     filename |-> latest_file, error |-> None]

ErrorRecord(msg) ==
    [status |-> "error", progress |-> 0, speed |-> None, eta |-> None,
     filename |-> None, error |-> Some(msg)]

\* ----------------------------------------------------------- progress hook
\* x or y, for optional numbers and for optional strings
OrNum(x, y) == IF x = None THEN y ELSE IF Val(x) = 0 THEN y ELSE x

OrStr(x, y) == IF x = None THEN y ELSE IF Val(x) = <<>> THEN y ELSE x

HookFilename(d) ==
    Basename(Val(OrStr(OrStr(d.filename, d.info_filename),
                       Some(<<"o", "u", "t", "p", "u", "t">>))))

\* the percentage without the cap at 99.9
PercentUncapped(downloaded, total) == RoundHalfEven(downloaded * 1000, total)

\* round(min((downloaded / total) * 100, 99.9), 1) in tenths, total > 0
Percent(downloaded, total) ==
    IF downloaded * 1000 >= 999 * total
    THEN 999
    ELSE RoundHalfEven(downloaded * 1000, total)

HookProgress(d) ==
    LET downloaded == Val(OrNum(d.downloaded_bytes, Some(0)))
        total == Val(OrNum(OrNum(d.total_bytes, d.total_bytes_estimate),
                           Some(0)))
    IN  IF total > 0 THEN Percent(downloaded, total) ELSE 0

HookSpeed(d) ==
    IF d.speed = None THEN None
    ELSE IF Val(d.speed) > 0 THEN Some(<<FmtBytes(d.speed), "/s">>)
    ELSE None

HookEta(d) ==
    IF d.eta = None THEN None
    ELSE Some(<<Val(d.eta) \div 60, Val(d.eta) % 60>>)

DownloadingRecord(d) ==
    [status |-> "downloading", progress |-> HookProgress(d),
     speed |-> HookSpeed(d), eta |-> HookEta(d),
     filename |-> Some(HookFilename(d)), error |-> None]

ProcessingRecord(d) ==
    [status |-> "processing", progress |-> 999, speed |-> None,
     eta |-> None, filename |-> Some(HookFilename(d)), error |-> None]

\* a hook that would also report the "error" phase, as an error record
ProgressHookErrorPhase(t, id, d) ==
    IF d.status = "downloading" THEN SetTask(t, id, DownloadingRecord(d))
    ELSE IF d.status = "finished" THEN SetTask(t, id, ProcessingRecord(d))
    ELSE SetTask(t, id, ErrorRecord("error"))

\* a hook that would add an event's percentage to the progress the record
\* holds
ProgressHookAccumulating(t, id, d) ==
    IF d.status = "downloading"
    THEN LET sum == (IF id \in DOMAIN t THEN t[id].progress ELSE 0)
                        + HookProgress(d)
         IN  SetTask(t, id,
                     [DownloadingRecord(d) EXCEPT
                         !.progress = IF sum > 999 THEN 999 ELSE sum])
    ELSE IF d.status = "finished" THEN SetTask(t, id, ProcessingRecord(d))
    ELSE t

\* _progress_hook(task_id, d) applied to the registry t
ProgressHook(t, id, d) ==
    IF d.status = "downloading" THEN SetTask(t, id, DownloadingRecord(d))
    ELSE IF d.status = "finished" THEN SetTask(t, id, ProcessingRecord(d))
    ELSE t

\* ----------------------------------------------------------------- history
HistoryEntry(filename, size, t) ==
    [filename |-> filename, size |-> size,
     size_human |-> FmtBytes(Some(size)), modified |-> t]

\* an _add_to_history whose length test is off by one
AddToHistoryOffByOne(h, filename, size, t) ==
    LET inserted == <<HistoryEntry(filename, size, t)>> \o h
    IN  IF Len(inserted) > MaxHistory + 1
        THEN SubSeq(inserted, 1, Len(inserted) - 1)
        ELSE inserted

\* an _add_to_history that would append the entry and drop the first one
AddToHistoryAppending(h, filename, size, t) ==
    LET inserted == Append(h, HistoryEntry(filename, size, t))
    IN  IF Len(inserted) > MaxHistory THEN Tail(inserted) ELSE inserted

\* _add_to_history
AddToHistory(h, filename, size, t) ==
    LET inserted == <<HistoryEntry(filename, size, t)>> \o h
    IN  IF Len(inserted) > MaxHistory
        THEN SubSeq(inserted, 1, Len(inserted) - 1)
        ELSE inserted

\* a filter that would compare the entries with the last segment of the
\* filename it is given
WithoutFilenameByBasename(h, filename) ==
    SelectSeq(h, LAMBDA e : e.filename # Basename(filename))

\* the filter of delete_file
WithoutFilename(h, filename) ==
    SelectSeq(h, LAMBDA e : e.filename # filename)

\* the body of get_history
HistoryItems(h) ==
    [i \in 1..Len(h) |->
        [filename |-> h[i].filename, size |-> h[i].size,
         size_human |-> h[i].size_human, modified |-> h[i].modified,
         download_url |->
            <<"/", "d", "o", "w", "n", "l", "o", "a", "d", "s", "/">>
                \o h[i].filename]]

\* ------------------------------------------------------------------- locks
\* the thread of the event loop, which runs the request handlers; the
\* worker thread of a job is named by the job's task id
EventLoop == 0

Threads == {EventLoop} \cup DOMAIN pc

NoCall == [fn |-> "none", n |-> 0]

\* an _add_to_history that would write a task record inside its with block
LockOrderNested(fn) ==
    IF fn \in {"_get_task", "_set_task"} THEN <<"tasks_lock">>
    ELSE IF fn = "_add_to_history" THEN <<"history_lock", "tasks_lock">>
    ELSE <<"history_lock">>

\* the locks a function takes, outermost first: _get_task and _set_task
\* take tasks_lock; _add_to_history, get_history and delete_file take
\* history_lock
LockOrder(fn) ==
    IF fn \in {"_get_task", "_set_task"} THEN <<"tasks_lock">>
    ELSE <<"history_lock">>

Takes(fn, lock) == \E i \in 1..Len(LockOrder(fn)) : LockOrder(fn)[i] = lock

Holder(lock) == IF lock = "tasks_lock" THEN tasks_lock ELSE history_lock

\* no lock is held and every thread is outside the locking functions
LocksFree ==
    /\ tasks_lock = None
    /\ history_lock = None
    /\ call = [th \in Threads |-> NoCall]

\* thread th runs the with block of fn and leaves it: either it has
\* acquired the locks of fn in steps of their own, or the locks are free
\* and the whole block is one step
InSection(th, fn) ==
    /\ \/ /\ call[th] = NoCall
          /\ \A i \in 1..Len(LockOrder(fn)) : Holder(LockOrder(fn)[i]) = None
       \/ call[th] = [fn |-> fn, n |-> Len(LockOrder(fn))]
    /\ call' = [call EXCEPT ![th] = NoCall]
    /\ tasks_lock' = IF Takes(fn, "tasks_lock") THEN None ELSE tasks_lock
    /\ history_lock' = IF Takes(fn, "history_lock") THEN None
                       ELSE history_lock

\* thread th takes a step outside the locking functions
NoSection(th) ==
    /\ call[th] = NoCall
    /\ UNCHANGED lockvars

\* -------------------------------------------------------------------- Init
Init ==
    /\ tasks = <<>>
    /\ download_history = <<>>
    /\ disk = OutsideFiles
    /\ pc = [id \in TaskIds |-> "idle"]
    /\ queue = <<>>
    /\ nextId = 1
    /\ loc = [id \in TaskIds |-> NoLoc]
    /\ timer = [id \in TaskIds |-> NoTimer]
    /\ now = 0
    /\ req = NoReq
    /\ resp = NoResp
    /\ LocksFree

\* ------------------------------------------------------------- worker pool
RunningPcs == {"fetch", "listed", "sorted", "sized", "finishing"}

\* an executor that would count a worker as free once its fetch call is over
BusyFetchOnly == Cardinality({ id \in DOMAIN pc : pc[id] = "fetch" })

\* an executor whose worker is lost when its job ends in the except clause
BusyKeepsFailed ==
    Cardinality({ id \in DOMAIN pc :
                    \/ pc[id] \in RunningPcs
                    \/ (pc[id] = "exit" /\ tasks[id].status = "error") })

\* the workers of the executor that are running a job
Busy == Cardinality({ id \in DOMAIN pc : pc[id] \in RunningPcs })

\* the code thread th is about to run calls fn: the handlers of the event
\* loop call _get_task, get_history's and delete_file's with blocks; a
\* worker calls _set_task for the pending, progress, error and done records
\* and _add_to_history once the file's size is read
CanCall(th, fn) ==
    IF th = EventLoop
    THEN /\ req.op = "none"
         /\ fn \in {"_get_task", "get_history", "delete_file"}
    ELSE \/ /\ fn = "_set_task"
            /\ \/ queue # <<>> /\ Head(queue) = th /\ Busy < PoolSize
               \/ pc[th] \in {"fetch", "finishing"}
         \/ /\ fn = "_add_to_history"
            /\ pc[th] = "sized"

\* thread th enters fn and stands before its with statement
CallFn(th, fn) ==
    /\ call[th] = NoCall
    /\ CanCall(th, fn)
    /\ call' = [call EXCEPT ![th] = [fn |-> fn, n |-> 0]]
    /\ resp' = NoResp
    /\ UNCHANGED <<tasks, download_history, disk, pc, queue, nextId, loc,
                   timer, now, req, tasks_lock, history_lock>>

\* the lock thread th is to acquire next
Wanted(th) == LockOrder(call[th].fn)[call[th].n + 1]

\* thread th stands in a locking function before a lock it has not got
Entering(th) ==
    /\ call[th] # NoCall
    /\ call[th].n < Len(LockOrder(call[th].fn))

\* with lock: thread th gets the lock once no thread holds it
Acquire(th) ==
    /\ Entering(th)
    /\ Holder(Wanted(th)) = None
    /\ tasks_lock' = IF Wanted(th) = "tasks_lock" THEN Some(th)
                     ELSE tasks_lock
    /\ history_lock' = IF Wanted(th) = "history_lock" THEN Some(th)
                       ELSE history_lock
    /\ call' = [call EXCEPT ![th].n = call[th].n + 1]
    /\ resp' = NoResp
    /\ UNCHANGED <<tasks, download_history, disk, pc, queue, nextId, loc,
                   timer, now, req>>

\* an except clause that would update the record the job last wrote
FailKeepsFields(id, msg) ==
    /\ tasks' = SetTask(tasks, id,
                        [tasks[id] EXCEPT !.status = "error",
                                          !.error = Some(msg)])
    /\ pc' = [pc EXCEPT ![id] = "exit"]
    /\ loc' = [loc EXCEPT ![id] = NoLoc]

\* the except clause of _run_download_task: the error record is written
\* and the worker leaves the job
Fail(id, msg) ==
    /\ tasks' = SetTask(tasks, id, ErrorRecord(msg))
    /\ pc' = [pc EXCEPT ![id] = "exit"]
    /\ loc' = [loc EXCEPT ![id] = NoLoc]

\* ----------------------------------------------------- POST /api/download
\* start_download: validation, then a fresh task id and executor.submit
Submit(url, mode) ==
    /\ req.op = "none"
    /\ IF Strip(url) = <<>>
       THEN /\ resp' = [op |-> "submit", code |-> 400, url |-> url,
                        mode |-> mode, detail |-> "URL cannot be empty"]
            /\ UNCHANGED <<pc, queue, nextId>>
       ELSE IF mode \notin {"video", "audio"}
       THEN /\ resp' = [op |-> "submit", code |-> 400, url |-> url,
                        mode |-> mode,
                        detail |-> "Mode must be 'video' or 'audio'"]
            /\ UNCHANGED <<pc, queue, nextId>>
       ELSE /\ nextId \in DOMAIN pc
            /\ pc' = [pc EXCEPT ![nextId] = "queued"]
            /\ queue' = Append(queue, nextId)
            /\ nextId' = nextId + 1
            /\ resp' = [op |-> "submit", code |-> 200, url |-> url,
                        mode |-> mode, task_id |-> nextId]
    /\ UNCHANGED <<tasks, download_history, disk, loc, timer, now, req>>
    /\ NoSection(EventLoop)

\* ----------------------------------------------------- POST /api/validate
\* "h:mm:ss" or "m:ss" of a duration in seconds
DurationString(duration) ==
    LET secs == duration % 60
        mins == (duration \div 60) % 60
        hours == (duration \div 60) \div 60
    IN  IF hours # 0 THEN <<hours, mins, secs>> ELSE <<mins, secs>>

\* the VideoInfo built from what extract_info returned
VideoInfoOf(info) ==
    LET is_pl == info.type = "playlist" \/ info.entries # None
        duration == OrNum(info.duration, None)
    IN  [title |-> IF info.title = None THEN "Unknown" ELSE Val(info.title),
         channel |-> IF info.uploader # None THEN Val(info.uploader)
                     ELSE IF info.channel # None THEN Val(info.channel)
                     ELSE "Unknown",
         duration |-> info.duration,
         duration_string |-> IF duration = None THEN None
                             ELSE Some(DurationString(Val(duration))),
         is_playlist |-> is_pl,
         playlist_count |-> IF is_pl THEN OrNum(info.entries, None) ELSE None]

\* validate_url: an empty url is answered at once; else extract_info is
\* called, and its result or failure is turned into the response
Validate(url, outcome) ==
    /\ req.op = "none"
    /\ LET stripped == Strip(url)
           probe == Some([url |-> stripped,
                          extract_flat |-> IsPlaylistUrl(stripped)])
       IN  resp' =
             IF stripped = <<>>
             THEN [op |-> "validate", url |-> url, valid |-> FALSE,
                   info |-> None, error |-> Some(<<"URL cannot be empty">>),
                   probe |-> None]
             ELSE IF outcome.kind = "none"
             THEN [op |-> "validate", url |-> url, valid |-> FALSE,
                   info |-> None,
                   error |-> Some(<<"Could not extract video info">>),
                   probe |-> probe]
             ELSE IF outcome.kind = "DownloadError"
             THEN [op |-> "validate", url |-> url, valid |-> FALSE,
                   info |-> None, error |-> Some(<<outcome.msg>>),
                   probe |-> probe]
             ELSE IF outcome.kind = "Exception"
             THEN [op |-> "validate", url |-> url, valid |-> FALSE,
                   info |-> None,
                   error |-> Some(<<"Validation failed: ", outcome.msg>>),
                   probe |-> probe]
             ELSE [op |-> "validate", url |-> url, valid |-> TRUE,
                   info |-> Some(VideoInfoOf(outcome.info)), error |-> None,
                   probe |-> probe]
    /\ UNCHANGED <<tasks, download_history, disk, pc, queue, nextId, loc,
                   timer, now, req>>
    /\ NoSection(EventLoop)

\* ------------------------------------------------------ _run_download_task
\* a free worker takes the oldest queued job and writes the pending record
StartWorker(id) ==
    /\ queue # <<>>
    /\ Head(queue) = id
    /\ Busy < PoolSize
    /\ queue' = Tail(queue)
    /\ tasks' = SetTask(tasks, id, PendingRecord)
    /\ pc' = [pc EXCEPT ![id] = "fetch"]
    /\ resp' = NoResp
    /\ UNCHANGED <<download_history, disk, nextId, loc, timer, now, req>>
    /\ InSection(id, "_set_task")

\* yt-dlp calls the progress hook from inside ydl.download
ProgressEvent(id, d) ==
    /\ pc[id] = "fetch"
    /\ tasks' = ProgressHook(tasks, id, d)
    /\ resp' = NoResp
    /\ UNCHANGED <<download_history, disk, pc, queue, nextId, loc, timer,
                   now, req>>
    /\ IF d.status \in {"downloading", "finished"}
       THEN InSection(id, "_set_task")
       ELSE NoSection(id)

\* yt-dlp writes a file into the output directory
FetchWrite(id, name, size) ==
    /\ pc[id] = "fetch"
    /\ disk' = WriteTo(disk, Append(BaseDir, name), size)
    /\ resp' = NoResp
    /\ UNCHANGED <<tasks, download_history, pc, queue, nextId, loc, timer,
                   now, req>>
    /\ NoSection(id)

\* ydl.download raises
FetchFail(id, msg) ==
    /\ pc[id] = "fetch"
    /\ Fail(id, msg)
    /\ resp' = NoResp
    /\ UNCHANGED <<download_history, disk, queue, nextId, timer, now, req>>
    /\ InSection(id, "_set_task")

\* ydl.download returns and download_path.iterdir() lists the output
\* directory
FetchReturn(id) ==
    /\ pc[id] = "fetch"
    /\ loc' = [loc EXCEPT ![id].listed = IterDir(disk)]
    /\ pc' = [pc EXCEPT ![id] = "listed"]
    /\ resp' = NoResp
    /\ UNCHANGED <<tasks, download_history, disk, queue, nextId, timer, now,
                   req>>
    /\ NoSection(id)

\* ydl.download returns and download_path.iterdir() raises
ScanListFail(id) ==
    /\ pc[id] = "fetch"
    /\ Fail(id, ScanError)
    /\ resp' = NoResp
    /\ UNCHANGED <<download_history, disk, queue, nextId, timer, now, req>>
    /\ InSection(id, "_set_task")

\* sorted() stats every listed file; a file deleted since the listing
\* makes stat() raise
ScanSort(id) ==
    /\ pc[id] = "listed"
    /\ IF loc[id].listed \subseteq DiskPaths(disk)
       THEN LET files == SortByMtime(disk, loc[id].listed) IN
            /\ loc' = [loc EXCEPT ![id].files = files, ![id].listed = {}]
            /\ pc' = [pc EXCEPT ![id] =
                         IF files # <<>> THEN "sorted" ELSE "finishing"]
            /\ UNCHANGED tasks
       ELSE Fail(id, StatError)
    /\ resp' = NoResp
    /\ UNCHANGED <<download_history, disk, queue, nextId, timer, now, req>>
    /\ IF loc[id].listed \subseteq DiskPaths(disk)
       THEN NoSection(id)
       ELSE InSection(id, "_set_task")

\* latest_file = files[0].name; file_size = files[0].stat().st_size
ScanSize(id) ==
    /\ pc[id] = "sorted"
    /\ IF loc[id].files[1] \in DiskPaths(disk)
       THEN /\ loc' = [loc EXCEPT
                         ![id].latest_file = Some(PathName(loc[id].files[1])),
                         ![id].file_size = SizeOf(disk, loc[id].files[1])]
            /\ pc' = [pc EXCEPT ![id] = "sized"]
            /\ UNCHANGED tasks
       ELSE Fail(id, StatError)
    /\ resp' = NoResp
    /\ UNCHANGED <<download_history, disk, queue, nextId, timer, now, req>>
    /\ IF loc[id].files[1] \in DiskPaths(disk)
       THEN NoSection(id)
       ELSE InSection(id, "_set_task")

\* _add_to_history(latest_file, file_size), then _schedule_delete(files[0]):
\* the deletion thread starts and sleeps
Record(id) ==
    /\ pc[id] = "sized"
    /\ download_history' = AddToHistory(download_history,
                                        Val(loc[id].latest_file),
                                        loc[id].file_size, now)
    /\ timer' = [timer EXCEPT ![id] =
                    [state |-> "sleeping", path |-> loc[id].files[1],
                     due |-> now + AUTO_DELETE_SECONDS]]
    /\ pc' = [pc EXCEPT ![id] = "finishing"]
    /\ resp' = NoResp
    /\ UNCHANGED <<tasks, disk, queue, nextId, loc, now, req>>
    /\ InSection(id, "_add_to_history")

\* a worker that would join the deletion thread before writing the done
\* record
FinishAfterDeletion(id) ==
    /\ pc[id] = "finishing"
    /\ timer[id].state # "sleeping"
    /\ tasks' = SetTask(tasks, id, DoneRecord(loc[id].latest_file))
    /\ pc' = [pc EXCEPT ![id] = "exit"]
    /\ loc' = [loc EXCEPT ![id] = NoLoc]
    /\ resp' = NoResp
    /\ UNCHANGED <<download_history, disk, queue, nextId, timer, now, req>>
    /\ InSection(id, "_set_task")

\* the done record is written and the worker leaves the job
Finish(id) ==
    /\ pc[id] = "finishing"
    /\ tasks' = SetTask(tasks, id, DoneRecord(loc[id].latest_file))
    /\ pc' = [pc EXCEPT ![id] = "exit"]
    /\ loc' = [loc EXCEPT ![id] = NoLoc]
    /\ resp' = NoResp
    /\ UNCHANGED <<download_history, disk, queue, nextId, timer, now, req>>
    /\ InSection(id, "_set_task")

\* -------------------------------------------------------- _schedule_delete
\* a deletion thread that would also drop the file's entries from the
\* history
TimerFirePruning(id, ok) ==
    /\ timer[id].state = "sleeping"
    /\ now >= timer[id].due
    /\ disk' = IF ok /\ timer[id].path \in DiskPaths(disk)
               THEN Unlink(disk, timer[id].path)
               ELSE disk
    /\ download_history' =
          WithoutFilename(download_history, PathName(timer[id].path))
    /\ timer' = [timer EXCEPT ![id] = [state |-> "done"]]
    /\ resp' = NoResp
    /\ UNCHANGED <<tasks, pc, queue, nextId, loc, now, req>>
    /\ UNCHANGED lockvars

\* _delete after time.sleep(delay): the file is unlinked if it exists; a
\* failing unlink (ok = FALSE) is printed and swallowed
TimerFire(id, ok) ==
    /\ timer[id].state = "sleeping"
    /\ now >= timer[id].due
    /\ disk' = IF ok /\ timer[id].path \in DiskPaths(disk)
               THEN Unlink(disk, timer[id].path)
               ELSE disk
    /\ timer' = [timer EXCEPT ![id] = [state |-> "done"]]
    /\ resp' = NoResp
    /\ UNCHANGED <<tasks, download_history, pc, queue, nextId, loc, now,
                   req>>
    /\ UNCHANGED lockvars

\* time passes, as long as the clock is short of its bound or a deletion
\* thread still sleeps
Tick ==
    /\ \/ now < MaxTicks * TickSeconds
       \/ \E id \in DOMAIN timer :
             timer[id].state = "sleeping" /\ timer[id].due > now
    /\ now' = now + TickSeconds
    /\ resp' = NoResp
    /\ UNCHANGED <<tasks, download_history, disk, pc, queue, nextId, loc,
                   timer, req>>
    /\ UNCHANGED lockvars

\* ------------------------------------------------- GET /api/status/{id}
Poll(id) ==
    /\ req.op = "none"
    /\ LET data == GetTask(tasks, id) IN
       resp' = IF data = None
               THEN [op |-> "poll", code |-> 404, task_id |-> id]
               ELSE [op |-> "poll", code |-> 200, task_id |-> id,
                     data |-> Val(data)]
    /\ UNCHANGED <<tasks, download_history, disk, pc, queue, nextId, loc,
                   timer, now, req>>
    /\ InSection(EventLoop, "_get_task")

\* ------------------------------------------------------ GET /api/history
ListHistory ==
    /\ req.op = "none"
    /\ resp' = [op |-> "history", code |-> 200,
                items |-> HistoryItems(download_history)]
    /\ UNCHANGED <<tasks, download_history, disk, pc, queue, nextId, loc,
                   timer, now, req>>
    /\ InSection(EventLoop, "get_history")

\* ---------------------------------------- DELETE /api/history/{filename}
\* the history is filtered under history_lock
DeleteBegin(filename) ==
    /\ req.op = "none"
    /\ download_history' = WithoutFilename(download_history, filename)
    /\ req' = [op |-> "delete", step |-> "check", filename |-> filename]
    /\ resp' = NoResp
    /\ UNCHANGED <<tasks, disk, pc, queue, nextId, loc, timer, now>>
    /\ InSection(EventLoop, "delete_file")

\* the path is resolved and checked, then tested for existence
DeleteCheck ==
    /\ req.op = "delete"
    /\ req.step = "check"
    /\ LET file_path == ResolveIn(BaseDir, req.filename) IN
       IF ~PathAllowed(file_path, BaseDir)
       THEN /\ resp' = [op |-> "delete", code |-> 403,
                        filename |-> req.filename, path |-> file_path,
                        fsops |-> <<>>]
            /\ req' = NoReq
       ELSE IF Exists(disk, file_path)
       THEN /\ req' = [req EXCEPT !.step = "unlink"]
            /\ resp' = NoResp
       ELSE /\ resp' = [op |-> "delete", code |-> 200,
                        filename |-> req.filename, path |-> file_path,
                        fsops |-> <<"exists">>]
            /\ req' = NoReq
    /\ UNCHANGED <<tasks, download_history, disk, pc, queue, nextId, loc,
                   timer, now>>
    /\ NoSection(EventLoop)

\* file_path.unlink(); it raises when the path is a directory or the file
\* has gone since the existence test, and the request ends in a 500
DeleteUnlink ==
    /\ req.op = "delete"
    /\ req.step = "unlink"
    /\ LET file_path == ResolveIn(BaseDir, req.filename) IN
       IF file_path \in DiskPaths(disk)
       THEN /\ disk' = Unlink(disk, file_path)
            /\ resp' = [op |-> "delete", code |-> 200,
                        filename |-> req.filename, path |-> file_path,
                        fsops |-> <<"exists", "unlink">>]
       ELSE /\ disk' = disk
            /\ resp' = [op |-> "delete", code |-> 500,
                        filename |-> req.filename, path |-> file_path,
                        fsops |-> <<"exists", "unlink">>]
    /\ req' = NoReq
    /\ UNCHANGED <<tasks, download_history, pc, queue, nextId, loc, timer,
                   now>>
    /\ NoSection(EventLoop)

\* -------------------------------------------- GET /downloads/{filename}
\* a handler that would answer with the file without testing that it exists
ServeUntested(filename) ==
    /\ req.op = "none"
    /\ LET file_path == ResolveIn(BaseDir, filename) IN
       resp' = IF ~PathAllowed(file_path, BaseDir)
               THEN [op |-> "serve", code |-> 403, filename |-> filename,
                     path |-> file_path, fsops |-> <<>>]
               ELSE [op |-> "serve", code |-> 200, filename |-> filename,
                     path |-> file_path, fsops |-> <<"read">>]
    /\ UNCHANGED <<tasks, download_history, disk, pc, queue, nextId, loc,
                   timer, now, req>>
    /\ NoSection(EventLoop)

Serve(filename) ==
    /\ req.op = "none"
    /\ LET file_path == ResolveIn(BaseDir, filename) IN
       resp' = IF ~PathAllowed(file_path, BaseDir)
               THEN [op |-> "serve", code |-> 403, filename |-> filename,
                     path |-> file_path, fsops |-> <<>>]
               ELSE IF ~Exists(disk, file_path)
               THEN [op |-> "serve", code |-> 410, filename |-> filename,
                     path |-> file_path, fsops |-> <<"exists">>]
               ELSE [op |-> "serve", code |-> 200, filename |-> filename,
                     path |-> file_path, fsops |-> <<"exists", "read">>]
    /\ UNCHANGED <<tasks, download_history, disk, pc, queue, nextId, loc,
                   timer, now, req>>
    /\ NoSection(EventLoop)

\* ----------------------------------------------------------- specification
\* the progress events that carry a phase and nothing else
PlainEvents ==
    { d \in ProgressEvents :
        /\ d.downloaded_bytes = None /\ d.total_bytes = None
        /\ d.total_bytes_estimate = None /\ d.speed = None /\ d.eta = None
        /\ d.filename = None /\ d.info_filename = None }

\* the filenames a and ../p
PlainFilenames == { <<"a">>, <<".", ".", "/", "p">> }

\* the steps of a job on its worker, the progress events apart
Job ==
    \/ \E id \in DOMAIN pc : StartWorker(id)
    \/ \E id \in DOMAIN pc, name \in OutNames, size \in FileSizes :
          FetchWrite(id, name, size)
    \/ \E id \in DOMAIN pc : FetchReturn(id)
    \/ \E id \in DOMAIN pc, msg \in FetchErrors : FetchFail(id, msg)
    \/ \E id \in DOMAIN pc : ScanListFail(id)
    \/ \E id \in DOMAIN pc : ScanSort(id)
    \/ \E id \in DOMAIN pc : ScanSize(id)
    \/ \E id \in DOMAIN pc : Record(id)
    \/ \E id \in DOMAIN pc : Finish(id)

\* the whole service: jobs, deletion threads, the clock and the requests
\* that submit a valid job, poll and delete
Next ==
    \/ \E mode \in {"video", "audio"} : Submit(<<"u">>, mode)
    \/ Job
    \/ \E id \in DOMAIN pc, d \in PlainEvents : ProgressEvent(id, d)
    \/ \E id \in DOMAIN pc, ok \in BOOLEAN : TimerFire(id, ok)
    \/ Tick
    \/ \E id \in DOMAIN pc : Poll(id)
    \/ \E filename \in PlainFilenames : DeleteBegin(filename)
    \/ DeleteCheck
    \/ DeleteUnlink

Spec == Init /\ [][Next]_vars

\* the delete and the serve endpoint alone, for every filename, on an
\* output directory that holds the files a and b left by an earlier run
InitFiles ==
    /\ tasks = <<>>
    /\ download_history = <<>>
    /\ disk = << [path |-> Append(BaseDir, <<"a">>), size |-> 1536],
                 [path |-> Append(BaseDir, <<"b">>), size |-> 1536] >>
              \o OutsideFiles
    /\ pc = [id \in TaskIds |-> "idle"]
    /\ queue = <<>>
    /\ nextId = 1
    /\ loc = [id \in TaskIds |-> NoLoc]
    /\ timer = [id \in TaskIds |-> NoTimer]
    /\ now = 0
    /\ req = NoReq
    /\ resp = NoResp
    /\ LocksFree

NextFiles ==
    \/ \E filename \in FilenameInputs : DeleteBegin(filename)
    \/ DeleteCheck
    \/ DeleteUnlink
    \/ \E filename \in FilenameInputs : Serve(filename)

SpecFiles == InitFiles /\ [][NextFiles]_vars

\* jobs that write the file a, under every progress event, and the polls
NextHook ==
    \/ Submit(<<"u">>, "video")
    \/ \E id \in DOMAIN pc : StartWorker(id)
    \/ \E id \in DOMAIN pc, d \in ProgressEvents : ProgressEvent(id, d)
    \/ \E id \in DOMAIN pc, size \in FileSizes :
          FetchWrite(id, <<"a">>, size)
    \/ \E id \in DOMAIN pc : FetchReturn(id)
    \/ \E id \in DOMAIN pc, msg \in FetchErrors : FetchFail(id, msg)
    \/ \E id \in DOMAIN pc : ScanListFail(id)
    \/ \E id \in DOMAIN pc : ScanSort(id)
    \/ \E id \in DOMAIN pc : ScanSize(id)
    \/ \E id \in DOMAIN pc : Record(id)
    \/ \E id \in DOMAIN pc : Finish(id)
    \/ \E id \in DOMAIN pc : Poll(id)

SpecHook == Init /\ [][NextHook]_vars

\* every submit request, and jobs that download nothing into an empty
\* output directory
NextSubmit ==
    \/ \E url \in Urls, mode \in Modes : Submit(url, mode)
    \/ \E id \in DOMAIN pc : StartWorker(id)
    \/ \E id \in DOMAIN pc, d \in PlainEvents : ProgressEvent(id, d)
    \/ \E id \in DOMAIN pc : FetchReturn(id)
    \/ \E id \in DOMAIN pc, msg \in FetchErrors : FetchFail(id, msg)
    \/ \E id \in DOMAIN pc : ScanSort(id)
    \/ \E id \in DOMAIN pc : Finish(id)
    \/ \E id \in DOMAIN pc : Poll(id)
    \/ ListHistory

SpecSubmit == Init /\ [][NextSubmit]_vars

\* a history that earlier jobs have filled up to, or one short of, the cap;
\* those jobs are finished and their task ids are not among the tracked ones
FilledHistory(n) ==
    [i \in 1..n |->
        HistoryEntry(IF i % 2 = 0 THEN <<"a">> ELSE <<"b">>,
                     1024 + (n - i), 0)]

InitHistory ==
    /\ tasks = <<>>
    /\ download_history \in
          { FilledHistory(n) : n \in (MaxHistory - 1)..MaxHistory }
    /\ disk = OutsideFiles
    /\ pc = [id \in TaskIds |-> "idle"]
    /\ queue = <<>>
    /\ nextId = 1
    /\ loc = [id \in TaskIds |-> NoLoc]
    /\ timer = [id \in TaskIds |-> NoTimer]
    /\ now = 0
    /\ req = NoReq
    /\ resp = NoResp
    /\ LocksFree

NextHistory ==
    \/ \E mode \in {"video", "audio"} : Submit(<<"u">>, mode)
    \/ Job
    \/ ListHistory
    \/ \E filename \in PlainFilenames : DeleteBegin(filename)
    \/ DeleteCheck
    \/ DeleteUnlink

SpecHistory == InitHistory /\ [][NextHistory]_vars

\* more jobs than the executor has workers, on an output directory that
\* holds the file a; the jobs end in the done or in the error record
PoolJobIds == 1..MaxPoolJobs

InitPool ==
    /\ tasks = <<>>
    /\ download_history = <<>>
    /\ disk = << [path |-> Append(BaseDir, <<"a">>), size |-> 1536] >>
              \o OutsideFiles
    /\ pc = [id \in PoolJobIds |-> "idle"]
    /\ queue = <<>>
    /\ nextId = 1
    /\ loc = [id \in PoolJobIds |-> NoLoc]
    /\ timer = [id \in PoolJobIds |-> NoTimer]
    /\ now = 0
    /\ req = NoReq
    /\ resp = NoResp
    /\ LocksFree

\* the step a worker takes next for job id
WorkerStep(id) ==
    \/ StartWorker(id)
    \/ FetchReturn(id)
    \/ \E msg \in FetchErrors : FetchFail(id, msg)
    \/ ScanSort(id)
    \/ ScanSize(id)
    \/ Record(id)
    \/ Finish(id)

NextPool ==
    \/ Submit(<<"u">>, "video")
    \/ \E id \in DOMAIN pc : WorkerStep(id)

SpecPool == InitPool /\ [][NextPool]_vars

\* every fetch call returns or raises and every worker thread keeps running:
\* the step a worker can take for a job is taken in the end
SpecPoolFair ==
    SpecPool /\ \A id \in PoolJobIds : WF_vars(WorkerStep(id))

\* jobs, their deferred deletions, the clock, the delete requests and the
\* serve requests for every filename
NextServe ==
    \/ Submit(<<"u">>, "video")
    \/ Job
    \/ \E id \in DOMAIN pc, ok \in BOOLEAN : TimerFire(id, ok)
    \/ Tick
    \/ \E filename \in PlainFilenames : DeleteBegin(filename)
    \/ DeleteCheck
    \/ DeleteUnlink
    \/ \E filename \in FilenameInputs : Serve(filename)

SpecServe == Init /\ [][NextServe]_vars

\* jobs that write the file a with a size at the edge of a tier, and the
\* history listing that shows the rendered size
NextSizes ==
    \/ Submit(<<"u">>, "video")
    \/ \E id \in DOMAIN pc : StartWorker(id)
    \/ \E id \in DOMAIN pc, size \in SizeInputs :
          FetchWrite(id, <<"a">>, size)
    \/ \E id \in DOMAIN pc : FetchReturn(id)
    \/ \E id \in DOMAIN pc : ScanSort(id)
    \/ \E id \in DOMAIN pc : ScanSize(id)
    \/ \E id \in DOMAIN pc : Record(id)
    \/ \E id \in DOMAIN pc : Finish(id)
    \/ ListHistory

SpecSizes == Init /\ [][NextSizes]_vars

\* the validate requests for every url and every way the probe may end
NextValidate ==
    \E url \in ValidateUrls, outcome \in ProbeOutcomes : Validate(url, outcome)

SpecValidate == Init /\ [][NextValidate]_vars

\* jobs that write the file a one after another or side by side, their
\* deletion threads and the clock
TimerJobIds == 1..MaxTimerJobs

InitTimers ==
    /\ tasks = <<>>
    /\ download_history = <<>>
    /\ disk = OutsideFiles
    /\ pc = [id \in TimerJobIds |-> "idle"]
    /\ queue = <<>>
    /\ nextId = 1
    /\ loc = [id \in TimerJobIds |-> NoLoc]
    /\ timer = [id \in TimerJobIds |-> NoTimer]
    /\ now = 0
    /\ req = NoReq
    /\ resp = NoResp
    /\ LocksFree

\* the deletion thread of job id wakes up and ends
TimerStep(id) == \E ok \in BOOLEAN : TimerFire(id, ok)

NextTimers ==
    \/ Submit(<<"u">>, "video")
    \/ \E id \in DOMAIN pc : WorkerStep(id)
    \/ \E id \in DOMAIN pc, size \in FileSizes :
          FetchWrite(id, <<"a">>, size)
    \/ \E id \in DOMAIN pc : TimerStep(id)
    \/ Tick

SpecTimers == InitTimers /\ [][NextTimers]_vars

\* time passes, and every worker thread and every deletion thread keeps
\* running
SpecTimersFair ==
    /\ SpecTimers
    /\ WF_vars(Tick)
    /\ \A id \in TimerJobIds : WF_vars(WorkerStep(id))
    /\ \A id \in TimerJobIds : WF_vars(TimerStep(id))

\* jobs submitted one after the other, each after the job before it has
\* ended; the fetch call of a job writes the job's own file (a for an odd
\* task id, b for an even one) or, the download being skipped, nothing
OwnName(id) == IF id % 2 = 1 THEN <<"a">> ELSE <<"b">>

SubmitAfterJobs ==
    /\ \A id \in DOMAIN pc : pc[id] \in {"idle", "exit"}
    /\ Submit(<<"u">>, "video")

NextSequential ==
    \/ SubmitAfterJobs
    \/ \E id \in DOMAIN pc : WorkerStep(id)
    \/ \E id \in DOMAIN pc, size \in FileSizes :
          FetchWrite(id, OwnName(id), size)
    \/ \E id \in DOMAIN pc : TimerStep(id)
    \/ Tick

SpecSequential == InitTimers /\ [][NextSequential]_vars

\* downloading events that tell the total byte count, and downloading
\* events that do not (absent or 0); the latter carry an eta, the former
\* none, so that a record shows which kind of event wrote it
KnownTotalEvents ==
    { [BareEvent("downloading") EXCEPT
          !.downloaded_bytes = Some(db), !.total_bytes = Some(t)] :
        db \in 0..MaxBytes, t \in 1..MaxBytes }

UnknownTotalEvents ==
    { [BareEvent("downloading") EXCEPT
          !.downloaded_bytes = db, !.total_bytes = t, !.eta = Some(75)] :
        db \in ByteCounts, t \in {None, Some(0)} }

NextTotals ==
    \/ Submit(<<"u">>, "video")
    \/ \E id \in DOMAIN pc : StartWorker(id)
    \/ \E id \in DOMAIN pc, d \in KnownTotalEvents : ProgressEvent(id, d)
    \/ \E id \in DOMAIN pc, d \in UnknownTotalEvents : ProgressEvent(id, d)
    \/ \E id \in DOMAIN pc, size \in FileSizes :
          FetchWrite(id, <<"a">>, size)
    \/ \E id \in DOMAIN pc : FetchReturn(id)
    \/ \E id \in DOMAIN pc : ScanSort(id)
    \/ \E id \in DOMAIN pc : ScanSize(id)
    \/ \E id \in DOMAIN pc : Record(id)
    \/ \E id \in DOMAIN pc : Finish(id)
    \/ \E id \in DOMAIN pc : Poll(id)

SpecTotals == Init /\ [][NextTotals]_vars

\* ------------------------------------------------------------------ claims
\* the jobs start_download has accepted
Accepted == { id \in DOMAIN pc : pc[id] # "idle" }

\* C1: every task id that start_download has returned is in the registry,
\* with status pending as long as no worker has started the job, so a poll
\* of it never answers not-found.
C1_AcceptedTaskIsPollable ==
    \A id \in Accepted :
        /\ GetTask(tasks, id) # None
        /\ pc[id] = "queued" => tasks[id].status = "pending"

\* C2: done and error are absorbing: a step never changes the status of a
\* task whose record says done or error.
C2_TerminalAbsorbing ==
    [][\A id \in DOMAIN tasks :
          tasks[id].status \in {"done", "error"}
              => /\ id \in DOMAIN tasks'
                 /\ tasks'[id].status = tasks[id].status]_vars

\* a poll answers with a terminal record after the deferred deletion of
\* the job's file has run
C2_Witness ==
    /\ resp.op = "poll"
    /\ resp.code = 200
    /\ resp.data.status = "done"
    /\ timer[resp.task_id].state = "done"

\* C3: while a task stays downloading, a progress event never lowers its
\* progress.
C3_DownloadingProgressMonotone ==
    [][\A id \in DOMAIN tasks :
          (tasks[id].status = "downloading"
              /\ tasks'[id].status = "downloading")
              => tasks'[id].progress >= tasks[id].progress]_vars

\* C4: downloading and processing records carry at most 99.9, processing
\* exactly 99.9, and a record carries 100 exactly when its status is done.
C4_ProgressBounds ==
    \A id \in DOMAIN tasks :
        /\ tasks[id].status \in {"downloading", "processing"}
              => tasks[id].progress <= 999
        /\ tasks[id].status = "processing" => tasks[id].progress = 999
        /\ tasks[id].progress = 1000 <=> tasks[id].status = "done"

\* a downloading record whose percentage was cut down to 99.9
C4_Witness ==
    \E id \in DOMAIN tasks :
        /\ tasks[id].status = "downloading"
        /\ tasks[id].progress = 999

\* C5: the status of a task never goes from processing back to downloading
\* and never returns to pending.
C5_StatusMovesForward ==
    [][\A id \in DOMAIN tasks :
          /\ ~(tasks[id].status = "processing"
                  /\ tasks'[id].status = "downloading")
          /\ ~(tasks[id].status # "pending"
                  /\ tasks'[id].status = "pending")]_vars

\* C6: the history never holds more than 100 entries, and a record made
\* when it holds 100 puts the new entry first, drops the last entry and
\* keeps the others in place.
C6_HistoryCapEvictsOldest ==
    [][/\ Len(download_history) <= MaxHistory
       /\ Len(download_history') <= MaxHistory
       /\ \A id \in DOMAIN pc :
             (pc[id] = "sized" /\ pc'[id] = "finishing"
                 /\ Len(download_history) = MaxHistory)
                 => /\ Len(download_history') = MaxHistory
                    /\ download_history'[1].filename
                          = Val(loc[id].latest_file)
                    /\ \A i \in 2..MaxHistory :
                          download_history'[i] = download_history[i - 1]
      ]_vars

\* a full history whose first entry is a job's and whose last entry is the
\* second oldest of the history the run started with
C6_Witness ==
    /\ Len(download_history) = MaxHistory
    /\ download_history[1].size \in FileSizes
    /\ download_history[MaxHistory].size = 1025

\* C7: a delete request whose filename resolves outside the output
\* directory is answered 403 and leaves the files on disk as they were.
C7_TraversalDeleteRejected ==
    [][(req.op = "delete"
          /\ ~IsDescendant(ResolveIn(BaseDir, req.filename), BaseDir))
          => /\ disk' = disk
             /\ resp'.op = "delete"
             /\ resp'.code = 403]_vars

\* C8: the delete and the serve endpoint answer a filename that resolves
\* to a path outside the output directory's tree with 403 and touch the
\* file system for no such path.
C8_FileOpsOnlyInsideOutputDir ==
    resp.op \in {"delete", "serve"}
        => \/ IsDescendant(resp.path, BaseDir)
           \/ (resp.code = 403 /\ resp.fsops = <<>>)

\* C9: a job that leaves on a failure of the fetch call or of the scan
\* leaves exactly the error record with the failure's message.
C9_FailureWritesErrorRecord ==
    [][\A id \in DOMAIN pc :
          (pc[id] \in {"fetch", "listed", "sorted"} /\ pc'[id] = "exit")
              => /\ tasks'[id].status = "error"
                 /\ tasks'[id].progress = 0
                 /\ tasks'[id].speed = None
                 /\ tasks'[id].eta = None
                 /\ tasks'[id].filename = None
                 /\ IF pc[id] = "fetch"
                    THEN tasks'[id].error
                            \in { Some(m) : m \in FetchErrors \cup {ScanError} }
                    ELSE tasks'[id].error = Some(StatError)]_vars

\* a job failed in the scan, on a file that was deleted after the listing
C9_Witness ==
    \E id \in DOMAIN tasks :
        /\ tasks[id].status = "error"
        /\ tasks[id].error = Some(StatError)
        /\ pc[id] = "exit"

\* C10: a submit whose url is empty or all whitespace, or whose mode is
\* neither video nor audio, is answered 400 and changes neither the
\* registry, nor the history, nor the executor's queue and jobs.
C10_InvalidSubmitRejected ==
    [][resp'.op = "submit"
          => LET blank == \A i \in 1..Len(resp'.url) :
                              resp'.url[i] \in Whitespace
                 badMode == resp'.mode \notin {"video", "audio"}
             IN  (blank \/ badMode)
                    => /\ resp'.code = 400
                       /\ tasks' = tasks
                       /\ download_history' = download_history
                       /\ queue' = queue
                       /\ pc' = pc
                       /\ nextId' = nextId]_vars

\* a submit with a whitespace-only url was answered 400
C10_Witness ==
    /\ resp.op = "submit"
    /\ resp.code = 400
    /\ resp.url = <<" ", "\t">>
    /\ resp.mode = "video"

\* the jobs a worker of the executor is running
Executing == { id \in DOMAIN pc : pc[id] \in RunningPcs }

\* C11: at most PoolSize jobs are executing at any time, and a job that is
\* queued has written nothing to the registry and leaves the queue only in a
\* step taken while fewer than PoolSize jobs are executing.
C11_PoolBound ==
    [][/\ Cardinality(Executing) <= PoolSize
       /\ Cardinality(Executing') <= PoolSize
       /\ \A id \in DOMAIN pc :
             pc[id] = "queued"
                => /\ id \notin DOMAIN tasks
                   /\ pc'[id] # "queued"
                         => Cardinality(Executing) < PoolSize]_vars

\* the pool is full, one of its jobs is past its fetch call, and a job
\* waits in the queue
C11_Witness ==
    /\ Cardinality(Executing) = PoolSize
    /\ \E id \in Executing : pc[id] # "fetch"
    /\ \E id \in DOMAIN pc : pc[id] = "queued"

\* C12: under fair workers and returning fetch calls, every job that
\* start_download has accepted ends with the done or the error record.
C12_AcceptedJobTerminates ==
    \A id \in PoolJobIds :
        (pc[id] = "queued")
            ~> (id \in DOMAIN tasks /\ tasks[id].status \in {"done", "error"})

\* the last job, which had to wait for a worker, is done after the three
\* jobs that filled the pool have failed
C12_Witness ==
    /\ \A id \in 1..PoolSize : pc[id] = "exit" /\ tasks[id].status = "error"
    /\ pc[MaxPoolJobs] = "exit"
    /\ tasks[MaxPoolJobs].status = "done"

\* the name of the file a job's scan has put first, if it found one
ScanFound(id) ==
    IF loc[id].files # <<>> THEN Some(PathName(loc[id].files[1])) ELSE None

\* C13 as stated: a job whose scan has found a file ends done, with one
\* history entry and one deferred deletion for that file; a job whose scan
\* found none ends done with no filename; neither ends in error.
C13_ScanFoundEndsDone ==
    [][\A id \in DOMAIN pc :
          (pc[id] \in {"sorted", "sized", "finishing"} /\ pc'[id] = "exit")
              => /\ tasks'[id].status = "done"
                 /\ tasks'[id].progress = 1000
                 /\ tasks'[id].filename = ScanFound(id)
                 /\ ScanFound(id) # None
                       => timer[id].state \in {"sleeping", "done"}
                 /\ ScanFound(id) = None => timer[id].state = "none"]_vars

\* C13, amended: when the fetch call has returned and the scan raises no
\* failure, a job whose scan found a file inserts one history entry for it
\* and starts one deferred deletion of it in the step after reading its
\* size, and ends done with progress 100 and that file's name; a job whose
\* scan found no file goes on to end done with no filename, with no history
\* entry and no deferred deletion; no other step of a job touches the
\* history or a deferred deletion.
C13_ScanOutcome ==
    [][\A id \in DOMAIN pc :
          /\ (pc[id] = "sized" /\ pc'[id] = "finishing")
                => /\ download_history'[1].filename = Val(ScanFound(id))
                   /\ download_history'[1].size = loc[id].file_size
                   /\ Len(download_history')
                         = IF Len(download_history) < MaxHistory
                           THEN Len(download_history) + 1 ELSE MaxHistory
                   /\ \A i \in 2..Len(download_history') :
                         download_history'[i] = download_history[i - 1]
                   /\ timer[id].state = "none"
                   /\ timer'[id].state = "sleeping"
                   /\ timer'[id].path = loc[id].files[1]
                   /\ timer'[id].due = now + AUTO_DELETE_SECONDS
          /\ (pc'[id] # pc[id] /\ pc[id] # "sized")
                => /\ download_history' = download_history
                   /\ timer' = timer
          /\ (pc[id] = "listed" /\ pc'[id] = "finishing")
                => /\ ScanFound(id)' = None
                   /\ timer[id].state = "none"
          /\ (pc[id] = "finishing" /\ pc'[id] = "exit")
                => /\ tasks'[id].status = "done"
                   /\ tasks'[id].progress = 1000
                   /\ tasks'[id].filename = ScanFound(id)
                   /\ ScanFound(id) = None <=> timer[id].state = "none"]_vars

\* a job is done with the name of the file a, its history entry is in the
\* history and its deferred deletion sleeps
C13_Witness ==
    \E id \in DOMAIN tasks :
        /\ tasks[id].status = "done"
        /\ tasks[id].filename = Some(<<"a">>)
        /\ timer[id].state = "sleeping"
        /\ timer[id].path = Append(BaseDir, <<"a">>)
        /\ Len(download_history) = 1
        /\ download_history[1].filename = <<"a">>

\* C14: a serve request whose filename resolves to a path inside the
\* output directory at which no file is on disk is answered 410, never 200.
C14_MissingFileIsGone ==
    (/\ resp.op = "serve"
     /\ IsDescendant(resp.path, BaseDir)
     /\ resp.path # BaseDir
     /\ resp.path \notin DiskPaths(disk))
        => resp.code = 410

\* the file a of a done job is asked for after its deferred deletion has
\* removed it
C14_Witness ==
    /\ resp.op = "serve"
    /\ resp.code = 410
    /\ resp.path = Append(BaseDir, <<"a">>)
    /\ \E id \in DOMAIN tasks :
          /\ tasks[id].filename = Some(<<"a">>)
          /\ timer[id].state = "done"

\* C15: the size a history entry shows for n bytes with
\* 1024^k <= n < 1024^(k+1) carries the unit of tier k and, for k = 0, the
\* integer n, for k > 0 a two-decimal value from 1.00 up to but not
\* including 1024.00 (the tiers B, KiB and MiB, which the sizes drawn reach).
C15_FmtBytesTierAndRange ==
    \A i \in 1..Len(download_history) :
        LET n == download_history[i].size
            shown == download_history[i].size_human
        IN  \A k \in 0..2 :
                (Pow(1024, k) <= n /\ n < Pow(1024, k + 1))
                    => /\ shown[2] = Units[k + 1]
                       /\ IF k = 0 THEN shown[1] = n
                          ELSE 100 <= shown[1] /\ shown[1] < 102400

\* the records a step of job id may hand to _set_task, by where the job
\* stands: pending at the start, the hook's records during the fetch call,
\* the done record at the end, the error record in the except clause
HookRecords ==
    { DownloadingRecord(d) : d \in ProgressEvents }
        \cup { ProcessingRecord(d) : d \in ProgressEvents }

ErrorRecords ==
    { ErrorRecord(m) : m \in FetchErrors \cup {ScanError, StatError} }

RecordsSet(id, ends) ==
    IF pc[id] = "queued" THEN {PendingRecord}
    ELSE IF pc[id] = "finishing" THEN {DoneRecord(loc[id].latest_file)}
    ELSE IF ends THEN ErrorRecords
    ELSE HookRecords

\* C16: an entry of the registry is never removed; a step that changes the
\* entry of an id leaves there one whole record handed to _set_task, and a
\* poll changes nothing and answers not-found when the id has no entry,
\* else with exactly the entry.
C16_RegistryAtomicRegister ==
    [][/\ DOMAIN tasks \subseteq DOMAIN tasks'
       /\ \A id \in DOMAIN tasks' :
             (id \notin DOMAIN tasks \/ tasks'[id] # tasks[id])
                => tasks'[id] \in RecordsSet(id, pc'[id] = "exit")
       /\ resp'.op = "poll"
             => /\ tasks' = tasks
                /\ IF resp'.task_id \in DOMAIN tasks
                   THEN /\ resp'.code = 200
                        /\ resp'.data = tasks[resp'.task_id]
                   ELSE resp'.code = 404]_vars

\* a poll answers with the error record that replaced a downloading record
\* naming a file
C16_Witness ==
    /\ resp.op = "poll"
    /\ resp.code = 200
    /\ resp.data = ErrorRecord("DownloadError")
    /\ Append(BaseDir, <<"a">>) \in DiskPaths(disk)

\* C17: a validate request whose url is empty or all whitespace is
\* answered valid false with the error "URL cannot be empty", with no info,
\* and extract_info is not called for it.
C17_EmptyUrlNotProbed ==
    (resp.op = "validate"
        /\ \A i \in 1..Len(resp.url) : resp.url[i] \in Whitespace)
        => /\ resp.valid = FALSE
           /\ resp.error = Some(<<"URL cannot be empty">>)
           /\ resp.info = None
           /\ resp.probe = None

\* a whitespace-only url was answered without a probe
C17_Witness ==
    /\ resp.op = "validate"
    /\ resp.url = <<" ", "\t">>
    /\ resp.probe = None
    /\ resp.valid = FALSE

\* C18: in the step that inserts a history entry, a file with the entry's
\* filename is in the output directory.
C18_InsertedEntryFileExists ==
    [][\A id \in DOMAIN pc :
          (pc[id] = "sized" /\ pc'[id] = "finishing")
              => Append(BaseDir, download_history'[1].filename)
                    \in DiskPaths(disk')]_vars

\* C19: a deletion thread removes a file only when the retention delay has
\* passed since every hand-over of that path to _schedule_delete, also when
\* several jobs have handed over the same path.
C19_AutoDeleteAfterFullDelay ==
    [][\A id \in DOMAIN timer :
          (timer[id].state = "sleeping" /\ timer'[id].state = "done"
              /\ disk' # disk)
              => \A other \in DOMAIN timer :
                    (timer[other].state = "sleeping"
                        /\ timer[other].path = timer[id].path)
                        => now >= timer[other].due]_vars

\* C20: under fair deletion threads and a running clock every deletion
\* thread that sleeps ends; it ends when its delay has passed, leaving its
\* file off the disk unless the removal failed; and the worker that started
\* it can write the done record whatever the thread is doing.
C20_DeletionFiresWorkerGoesOn ==
    /\ \A id \in TimerJobIds :
          (timer[id].state = "sleeping") ~> (timer[id].state = "done")
    /\ [][\A id \in DOMAIN timer :
             (timer[id].state = "sleeping" /\ timer'[id].state = "done")
                => /\ now >= timer[id].due
                   /\ \/ timer[id].path \notin DiskPaths(disk')
                      \/ disk' = disk]_vars
    /\ [](\A id \in DOMAIN pc :
             pc[id] = "finishing" => ENABLED Finish(id))

\* a job is done and has left its worker while its deletion thread sleeps
\* and the delay has not passed; another job's thread has ended
C20_Witness ==
    \E id \in DOMAIN tasks :
        /\ pc[id] = "exit"
        /\ tasks[id].status = "done"
        /\ timer[id].state = "sleeping"
        /\ now < timer[id].due
        /\ \E other \in DOMAIN timer : timer[other].state = "done"

\* C21: the step in which a deletion thread ends, whether it removes the
\* file, finds it gone or fails, changes no task record, no job and no
\* history entry; a done job whose deletion thread was started keeps its
\* done record with the filename, and the history keeps an entry for it.
C21_DeletionLeavesRecords ==
    [][/\ \A id \in DOMAIN timer :
             (timer[id].state = "sleeping" /\ timer'[id].state = "done")
                => /\ tasks' = tasks
                   /\ download_history' = download_history
                   /\ pc' = pc
       /\ \A id \in DOMAIN timer :
             (timer'[id].state = "done" /\ pc'[id] = "exit")
                => /\ tasks'[id].status = "done"
                   /\ tasks'[id].filename # None
                   /\ \E i \in 1..Len(download_history') :
                         download_history'[i].filename
                            = Val(tasks'[id].filename)]_vars

\* the deletion threads of two done jobs have ended, the second having
\* found the file gone, and the file is off the disk
C21_Witness ==
    /\ \A id \in DOMAIN timer :
          timer[id].state = "done" /\ tasks[id].status = "done"
    /\ Cardinality(DOMAIN timer) >= 2
    /\ Append(BaseDir, <<"a">>) \notin DiskPaths(disk)
    /\ Len(download_history) >= 2

\* C22: with jobs that run one at a time, the filename a job puts into the
\* history and into its done record is the name of the file its own fetch
\* call wrote, never that of a file an earlier job left.
C22_ScanFindsOwnArtifact ==
    [][\A id \in DOMAIN pc :
          /\ (pc[id] = "sized" /\ pc'[id] = "finishing")
                => download_history'[1].filename = OwnName(id)
          /\ (pc[id] = "finishing" /\ pc'[id] = "exit"
                 /\ tasks'[id].filename # None)
                => Val(tasks'[id].filename) = OwnName(id)]_vars

\* C23: a downloading event that does not tell the total byte count
\* leaves the progress of the task's record as it was.
C23_UnknownTotalKeepsProgress ==
    [][\A id \in DOMAIN tasks :
          (tasks'[id] # tasks[id]
              /\ tasks'[id].status = "downloading"
              /\ tasks'[id].eta # None)
              => tasks'[id].progress = tasks[id].progress]_vars

\* the progress events whose phase is neither downloading nor finished
OtherPhaseEvents ==
    { d \in ProgressEvents : d.status \notin {"downloading", "finished"} }

\* C24: a step that is the delivery of a progress event of another phase
\* than downloading and finished changes neither the registry, nor the
\* history, nor the files on disk.
C24_OtherPhaseChangesNothing ==
    [][(\E id \in DOMAIN pc, d \in OtherPhaseEvents : ProgressEvent(id, d))
          => /\ tasks' = tasks
             /\ download_history' = download_history
             /\ disk' = disk]_vars

\* a job in its fetch call, at which such an event can arrive, holds a
\* downloading record with a progress and has written its file
C24_Witness ==
    \E id \in DOMAIN tasks :
        /\ pc[id] = "fetch"
        /\ tasks[id].status = "downloading"
        /\ tasks[id].progress > 0
        /\ Append(BaseDir, <<"a">>) \in DiskPaths(disk)

\* C25: in every registry state a fetch can be in, and for every progress
\* event, the hook applied twice to the event leaves the registry the hook
\* applied once leaves.
C25_ProgressHookIdempotent ==
    \A id \in DOMAIN pc :
        pc[id] = "fetch"
            => \A d \in ProgressEvents :
                  ProgressHook(ProgressHook(tasks, id, d), id, d)
                     = ProgressHook(tasks, id, d)

\* an event has left a record at one half, on which a second delivery of
\* the event acts
C25_Witness ==
    \E id \in DOMAIN tasks :
        /\ pc[id] = "fetch"
        /\ tasks[id].status = "downloading"
        /\ tasks[id].progress = 500

\* C26: a record of the registry has a speed or an eta only when its
\* status is downloading, an error only when its status is error, and no
\* filename when its status is pending or error.
C26_RecordFieldsFitStatus ==
    \A id \in DOMAIN tasks :
        /\ (tasks[id].speed # None \/ tasks[id].eta # None)
              => tasks[id].status = "downloading"
        /\ tasks[id].error # None => tasks[id].status = "error"
        /\ tasks[id].status \in {"pending", "error"}
              => tasks[id].filename = None

\* a downloading record that carries a speed, an eta and a filename
C26_Witness ==
    \E id \in DOMAIN tasks :
        /\ tasks[id].status = "downloading"
        /\ tasks[id].speed # None
        /\ tasks[id].eta # None
        /\ tasks[id].filename # None

\* h with the entries that do not occur in kept taken out
Restricted(h, kept) ==
    SelectSeq(h, LAMBDA e : \E i \in 1..Len(kept) : kept[i] = e)

\* C27: the history is kept most recently added first: a step that records
\* puts the job's entry first and leaves the entries it keeps in their
\* order behind it, any other step that changes the history only removes
\* entries, and the listing shows the entries in the history's order.
C27_HistoryNewestFirst ==
    [][/\ \A id \in DOMAIN pc :
             (pc[id] = "sized" /\ pc'[id] = "finishing")
                => /\ download_history'[1].filename
                         = Val(loc[id].latest_file)
                   /\ Tail(download_history')
                         = SubSeq(download_history, 1,
                                  Len(download_history') - 1)
       /\ (\A id \in DOMAIN pc : ~(pc[id] = "sized" /\ pc'[id] = "finishing"))
             => download_history'
                   = Restricted(download_history, download_history')
       /\ resp'.op = "history"
             => /\ Len(resp'.items) = Len(download_history')
                /\ \A i \in 1..Len(resp'.items) :
                      /\ resp'.items[i].filename
                            = download_history'[i].filename
                      /\ resp'.items[i].size = download_history'[i].size
      ]_vars

\* the listing shows a job's entry before the entries a delete request
\* has left of an older history
C27_Witness ==
    /\ resp.op = "history"
    /\ Len(resp.items) >= 2
    /\ Len(resp.items) < MaxHistory - 1
    /\ resp.items[1].size \in FileSizes
    /\ resp.items[2].size \notin FileSizes

\* jobs that run side by side on the workers, with their progress events
\* and their failures
JobStep(id) ==
    \/ WorkerStep(id)
    \/ \E d \in PlainEvents : ProgressEvent(id, d)
    \/ \E size \in FileSizes : FetchWrite(id, <<"a">>, size)

NextWriters ==
    \/ Submit(<<"u">>, "video")
    \/ \E id \in DOMAIN pc : JobStep(id)

SpecWriters == InitTimers /\ [][NextWriters]_vars

\* the record of task id is the same before and after the step
SameRecord(id) ==
    /\ (id \in DOMAIN tasks) = (id \in DOMAIN tasks')
    /\ id \in DOMAIN tasks => tasks'[id] = tasks[id]

\* C28: a step of a job (pending write, progress event, done or error
\* write, or any other step of its worker) leaves the registry records of
\* all other task ids as they were, a failing step included, and a step that
\* changes the registry is a step of a job that a worker is executing.
C28_OnlyOwnWorkerWrites ==
    [][/\ \A id \in DOMAIN pc :
             JobStep(id) => \A other \in DOMAIN pc \ {id} : SameRecord(other)
       /\ tasks' # tasks
             => \E id \in DOMAIN pc :
                   /\ JobStep(id)
                   /\ pc[id] \in RunningPcs \cup {"queued"}
      ]_vars

\* one job has failed while the other, started before the failure, shows
\* the record of its progress event
C28_Witness ==
    /\ 1 \in DOMAIN tasks /\ 2 \in DOMAIN tasks
    /\ tasks[1].status = "error"
    /\ tasks[2].status = "processing"
    /\ pc[2] = "fetch"

\* the steps of the event loop: it runs one handler at a time, and a
\* handler enters its with block and acquires the lock in steps of their own
LoopStep ==
    \/ Submit(<<"u">>, "video")
    \/ \E fn \in {"_get_task", "get_history", "delete_file"} :
          CallFn(EventLoop, fn)
    \/ Acquire(EventLoop)
    \/ \E id \in TaskIds : Poll(id)
    \/ ListHistory
    \/ DeleteBegin(<<"a">>)
    \/ DeleteCheck
    \/ DeleteUnlink

\* the steps of the worker of job id, the calls of the locking functions
\* and the acquisitions included
WorkerLockStep(id) ==
    \/ JobStep(id)
    \/ \E fn \in {"_set_task", "_add_to_history"} : CallFn(id, fn)
    \/ Acquire(id)

ThreadStep(th) == IF th = EventLoop THEN LoopStep ELSE WorkerLockStep(th)

NextLocks ==
    \/ LoopStep
    \/ \E id \in DOMAIN pc : WorkerLockStep(id)
    \/ \E id \in DOMAIN pc : TimerStep(id)
    \/ Tick

SpecLocks == Init /\ [][NextLocks]_vars

\* thread th waits for a lock that another thread holds
Blocked(th) == Entering(th) /\ Holder(Wanted(th)) # None

\* C29: no thread ever holds tasks_lock and history_lock together; a thread
\* that waits for a lock waits for a thread that is not waiting itself and
\* can take its next step, so no set of operations waits in a circle; and
\* the thread a poll waits for is inside _set_task, never inside a history
\* operation.
C29_LocksNeverHeldTogether ==
    /\ \A th \in Threads :
          ~(tasks_lock = Some(th) /\ history_lock = Some(th))
    /\ \A th \in Threads :
          Blocked(th)
             => LET h == Val(Holder(Wanted(th))) IN
                /\ h # th
                /\ ~Blocked(h)
                /\ ENABLED ThreadStep(h)
    /\ (Blocked(EventLoop) /\ call[EventLoop].fn = "_get_task")
          => call[Val(tasks_lock)].fn = "_set_task"

\* a poll holds tasks_lock while a worker is inside _add_to_history and
\* holds history_lock
C29_Witness ==
    /\ call[EventLoop] = [fn |-> "_get_task", n |-> 1]
    /\ tasks_lock = Some(EventLoop)
    /\ \E id \in DOMAIN pc :
          /\ history_lock = Some(id)
          /\ call[id].fn = "_add_to_history"

\* C30: in the step in which a delete request for a filename inside the
\* output directory answers with its confirmation, the history holds no
\* entry with that filename, no file stands at the resolved path, and the
\* task records are left as they were; the step that filters the history
\* takes out the entries with that filename and keeps the others in order.
C30_DeleteConfirmedEntryGone ==
    [][/\ (resp'.op = "delete" /\ resp'.code = 200
           /\ IsDescendant(resp'.path, BaseDir))
          => /\ \A i \in 1..Len(download_history') :
                   download_history'[i].filename # resp'.filename
             /\ resp'.path \notin DiskPaths(disk')
             /\ tasks' = tasks
       /\ (req.op = "none" /\ req'.op = "delete")
          => /\ download_history'
                   = Restricted(download_history, download_history')
             /\ \A i \in 1..Len(download_history) :
                   download_history[i].filename # req'.filename
                      => \E j \in 1..Len(download_history') :
                            download_history'[j] = download_history[i]
             /\ tasks' = tasks
      ]_vars

\* the filenames of the delete requests that meet recorded files: a, and
\* the filenames ../a, .., ../p and /p, which resolve outside the output
\* directory
DeleteInputs ==
    { <<"a">>,
      <<".", ".", "/", "a">>,
      <<".", ".">>,
      <<".", ".", "/", "p">>,
      <<"/", "p">> }

\* jobs that record the files they find, and the delete requests
NextReject ==
    \/ Submit(<<"u">>, "video")
    \/ Job
    \/ \E filename \in DeleteInputs : DeleteBegin(filename)
    \/ DeleteCheck
    \/ DeleteUnlink

SpecReject == Init /\ [][NextReject]_vars

\* C31: the steps of a delete request whose filename resolves to a path
\* the handler rejects (the filter at its start and the check that answers
\* 403) leave the history as it was, and the request is answered 403.
C31_RejectedDeleteKeepsHistory ==
    [][/\ (req' # req
           /\ LET filename == IF req'.op = "delete" THEN req'.filename
                               ELSE req.filename
              IN  ~PathAllowed(ResolveIn(BaseDir, filename), BaseDir))
          => /\ download_history' = download_history
             /\ req'.op = "none" => (resp'.op = "delete" /\ resp'.code = 403)
       /\ (resp'.op = "delete" /\ resp'.code = 403)
          => /\ req.op = "delete"
             /\ download_history' = download_history
      ]_vars

\* the request for ../a is answered 403 while the history holds the entry
\* of the file a
C31_Witness ==
    /\ resp.op = "delete"
    /\ resp.code = 403
    /\ \E i \in 1..Len(download_history) :
          download_history[i].filename = Basename(resp.filename)

====
